---- MODULE Spec2Model ----
(***************************************************************************)
(* Checkpointed batch enrichment engine of pipeline_continuation.py:       *)
(* the classification client (_call_gemini), the response validator       *)
(* (_validate_ai_response) and the orchestrator (step6_gemma_enrichment)   *)
(* with its checkpoint file, under process kills and restarts.             *)
(***************************************************************************)
EXTENDS Integers, Sequences, FiniteSets, TLC

VARIABLES
    apiKey,        \* GOOGLE_API_KEY is non-empty
    parsedJson,    \* content of PARSED_JSON: the list of scholar records
    ckFile,        \* content of CHECKPOINT_FILE on disk
    enrichedFile,  \* content of ENRICHED_JSON on disk
    pc,            \* position of the step-6 process
    scholars,      \* step 6: the loaded records
    checkpoint,    \* step 6: the in-memory checkpoint mapping
    enriched,      \* step 6: the output list
    idx,           \* step 6: loop index i
    processed,     \* step 6: records classified in this run
    skipped,       \* step 6: records resumed in this run
    exc,           \* exception that ended the process, "none" otherwise
    hist,          \* observations of the runs (not read by the program)
    cl,            \* state of one _call_gemini invocation stepped on its own
    vd,            \* state of one _validate_ai_response application
    pg             \* state of one _parse_grants invocation stepped on its own

vars == <<apiKey, parsedJson, ckFile, enrichedFile, pc, scholars, checkpoint,
          enriched, idx, processed, skipped, exc, hist, cl, vd, pg>>

(***************************************************************************)
(* Program constants.                                                      *)
(***************************************************************************)
BATCH_SIZE == 5
REQUEST_DELAY == 4
MAX_RETRIES == 3
MAX_GRANTS == 10

(***************************************************************************)
(* Bounds of the model.                                                    *)
(***************************************************************************)
MaxRecords == 6     \* longest input list
MaxRuns == 2        \* runs of step 6 in one behaviour

(***************************************************************************)
(* JSON / Python values.  A value is a record tagged by its Python type.   *)
(* A str is a sequence of one-character strings; a dict is a function from *)
(* key names to values; a float is finite (in tenths) or inf, -inf, nan.   *)
(***************************************************************************)
\* The one value of an expression that Python evaluates once and then names.
Only(vals) == CHOOSE one \in vals : TRUE

JNull == [t |-> "null"]
JBool(b) == [t |-> "bool", v |-> b]
JInt(n) == [t |-> "int", v |-> n]
JFloat(n) == [t |-> "float", k |-> "fin", tenths |-> n]
JInf == [t |-> "float", k |-> "inf", tenths |-> 0]
JNan == [t |-> "float", k |-> "nan", tenths |-> 0]
JStr(s) == [t |-> "str", v |-> s]
JList(s) == [t |-> "list", v |-> s]
JDict(f) == [t |-> "dict", v |-> f]
EmptyDict == [k \in {} |-> JNull]

\* Outcome of evaluating a Python expression: a value, or a raised exception.
Ret(v) == [exc |-> "none", v |-> v]
Raise(e) == [exc |-> e, v |-> JNull]

Digits == <<"0", "1", "2", "3", "4", "5", "6", "7", "8", "9">>
UpperCase == <<"A", "E", "F", "L", "N", "O", "R", "S", "T", "U", "Y">>
LowerCase == <<"a", "e", "f", "l", "n", "o", "r", "s", "t", "u", "y">>
Whitespace == {" ", "\n", "\t"}

IndexIn(seq, c) ==
    IF \E j \in 1..Len(seq) : seq[j] = c
    THEN CHOOSE j \in 1..Len(seq) : seq[j] = c
    ELSE 0

IsDigit(c) == IndexIn(Digits, c) # 0
DigitVal(c) == IndexIn(Digits, c) - 1

\* str.lower()
Lower(s) ==
    [j \in 1..Len(s) |->
        IF IndexIn(UpperCase, s[j]) # 0 THEN LowerCase[IndexIn(UpperCase, s[j])]
        ELSE s[j]]

\* str.strip()
RECURSIVE LStrip(_)
LStrip(s) == IF s # <<>> /\ Head(s) \in Whitespace THEN LStrip(Tail(s)) ELSE s
RECURSIVE RStrip(_)
RStrip(s) ==
    IF s # <<>> /\ s[Len(s)] \in Whitespace THEN RStrip(SubSeq(s, 1, Len(s) - 1))
    ELSE s
Strip(s) == RStrip(LStrip(s))

\* str(n) for an integer n
RECURSIVE NatStr(_)
NatStr(n) == IF n < 10 THEN <<Digits[n + 1]>>
             ELSE NatStr(n \div 10) \o <<Digits[(n % 10) + 1]>>
IntStr(n) == IF n < 0 THEN <<"-">> \o NatStr(-n) ELSE NatStr(n)

\* int(s) for a str s: surrounding whitespace, an optional sign, then digits
\* with single underscores between them; anything else is a ValueError.
RECURSIVE DigitsVal(_, _)
DigitsVal(s, acc) ==
    IF s = <<>> THEN acc
    ELSE IF Head(s) = "_" THEN DigitsVal(Tail(s), acc)
    ELSE DigitsVal(Tail(s), 10 * acc + DigitVal(Head(s)))
WellFormedDigits(s) ==
    /\ s # <<>>
    /\ \A j \in 1..Len(s) : IsDigit(s[j]) \/ s[j] = "_"
    /\ IsDigit(s[1]) /\ IsDigit(s[Len(s)])
    /\ \A j \in 1..(Len(s) - 1) : ~(s[j] = "_" /\ s[j + 1] = "_")
IntOfStr(s) ==
    Only({LET signed == body # <<>> /\ Head(body) \in {"+", "-"}
          IN  Only({IF ~WellFormedDigits(digs) THEN Raise("ValueError")
                    ELSE IF signed /\ Head(body) = "-"
                         THEN Ret(JInt(-DigitsVal(digs, 0)))
                    ELSE Ret(JInt(DigitsVal(digs, 0))) :
                       digs \in {IF signed THEN Tail(body) ELSE body}}) :
             body \in {Strip(s)}})

\* int(x)
PyInt(x) ==
    CASE x.t = "int" -> Ret(x)
      [] x.t = "bool" -> Ret(JInt(IF x.v THEN 1 ELSE 0))
      [] x.t = "float" ->
            IF x.k = "nan" THEN Raise("ValueError")
            ELSE IF x.k # "fin" THEN Raise("OverflowError")
            ELSE IF x.tenths >= 0 THEN Ret(JInt(x.tenths \div 10))
            ELSE Ret(JInt(-((-x.tenths) \div 10)))
      [] x.t = "str" -> IntOfStr(x.v)
      [] OTHER -> Raise("TypeError")

\* bool(x): Python truthiness
Truthy(x) ==
    CASE x.t = "null" -> FALSE
      [] x.t = "bool" -> x.v
      [] x.t = "int" -> x.v # 0
      [] x.t = "float" -> ~(x.k = "fin" /\ x.tenths = 0)
      [] x.t = "str" -> x.v # <<>>
      [] x.t = "list" -> x.v # <<>>
      [] x.t = "dict" -> DOMAIN x.v # {}

\* str(x).  The repr of a list or a dict is kept only up to its brackets.
PyStr(x) ==
    CASE x.t = "str" -> x.v
      [] x.t = "int" -> IntStr(x.v)
      [] x.t = "bool" -> IF x.v THEN <<"T", "r", "u", "e">>
                         ELSE <<"F", "a", "l", "s", "e">>
      [] x.t = "null" -> <<"N", "o", "n", "e">>
      [] x.t = "float" ->
            IF x.k = "fin"
            THEN (IF x.tenths < 0 THEN <<"-">> ELSE <<>>)
                 \o NatStr((IF x.tenths < 0 THEN -x.tenths ELSE x.tenths) \div 10)
                 \o <<".">>
                 \o NatStr((IF x.tenths < 0 THEN -x.tenths ELSE x.tenths) % 10)
            ELSE IF x.k = "nan" THEN <<"n", "a", "n">>
            ELSE IF x.k = "inf" THEN <<"i", "n", "f">>
            ELSE <<"-", "i", "n", "f">>
      [] x.t = "list" -> <<"[", "]">>
      [] x.t = "dict" -> <<"{", "}">>

\* dict.get(key, default)
Get(d, key, default) == IF key \in DOMAIN d THEN d[key] ELSE default

\* dict.update(other)
Update(rec, d) ==
    [k \in DOMAIN rec \cup DOMAIN d |-> IF k \in DOMAIN d THEN d[k] ELSE rec[k]]

(***************************************************************************)
(* _validate_ai_response                                                   *)
(***************************************************************************)
\* Key names as str values, for the iteration over a dict.
KeyStr(k) == IF k = "k" THEN <<"k">> ELSE <<"?">>

\* set(d) as a sequence, in some order
RECURSIVE SetToSeq(_)
SetToSeq(S) ==
    IF S = {} THEN <<>>
    ELSE LET e == CHOOSE e \in S : TRUE IN <<e>> \o SetToSeq(S \ {e})

\* "for r in x": the items iterated, or the TypeError of a non-iterable
Iter(x) ==
    CASE x.t = "list" -> Ret(x)
      [] x.t = "dict" ->
            Ret(JList([j \in 1..Cardinality(DOMAIN x.v) |->
                          JStr(KeyStr(SetToSeq(DOMAIN x.v)[j]))]))
      [] x.t = "str" -> Ret(JList([j \in 1..Len(x.v) |-> JStr(<<x.v[j]>>)]))
      [] OTHER -> Raise("TypeError")

\* [str(r) for r in items if r]
RECURSIVE StrOfTruthy(_)
StrOfTruthy(items) ==
    IF items = <<>> THEN <<>>
    ELSE IF Truthy(Head(items)) THEN <<JStr(PyStr(Head(items)))>> \o StrOfTruthy(Tail(items))
    ELSE StrOfTruthy(Tail(items))

\* lines 414-417, 419-422, 429-432: one of the three list fields
ListField(result, key) ==
    LET raw == Get(result, key, JList(<<>>))
        items == IF raw.t = "str" THEN Ret(JList(<<raw>>)) ELSE Iter(raw)
    IN  IF items.exc # "none" THEN items
        ELSE Ret(JList(StrOfTruthy(items.v.v)))

Max(a, b) == IF a >= b THEN a ELSE b
Min(a, b) == IF a <= b THEN a ELSE b

\* lines 408-412
ScoreField(result) ==
    Only({IF n.exc = "none" THEN Ret(JInt(Max(0, Min(100, n.v.v))))
          ELSE IF n.exc \in {"ValueError", "TypeError"} THEN Ret(JInt(0))
          ELSE n : n \in {PyInt(Get(result, "relevance_score", JInt(0)))}})

Yes == <<"Y", "e", "s">>
No == <<"N", "o">>
TruthyWords == {<<"y", "e", "s">>, <<"t", "r", "u", "e">>, <<"1">>}

\* lines 424-427
ShouldEmailField_CaseSensitive(result) ==
    IF PyStr(Get(result, "should_email", JStr(No))) \in TruthyWords
    THEN JStr(Yes) ELSE JStr(No)
ShouldEmailField_Initial(result) ==
    IF Lower(PyStr(Get(result, "should_email", JStr(No)))) \in TruthyWords
    THEN JStr(<<"Y">>) ELSE JStr(<<"N">>)
ShouldEmailField(result) ==
    IF Lower(PyStr(Get(result, "should_email", JStr(No)))) \in TruthyWords
    THEN JStr(Yes) ELSE JStr(No)

ResultFields == {"relevance_score", "reasoning", "requirements", "should_email", "tags"}

_validate_ai_response_Raw(result) == Ret(result)
_validate_ai_response(result) ==
    IF result.t # "dict" THEN Raise("AttributeError")    \* result.get
    ELSE
    LET d == result.v
        score == ScoreField(d)
        reasoning == ListField(d, "reasoning")
        requirements == ListField(d, "requirements")
        tags == ListField(d, "tags")
    IN  IF score.exc # "none" THEN score
        ELSE IF reasoning.exc # "none" THEN reasoning
        ELSE IF requirements.exc # "none" THEN requirements
        ELSE IF tags.exc # "none" THEN tags
        ELSE Ret(JDict([relevance_score |-> score.v,
                        reasoning |-> reasoning.v,
                        requirements |-> requirements.v,
                        should_email |-> ShouldEmailField(d),
                        tags |-> tags.v]))

(***************************************************************************)
(* _call_gemini                                                            *)
(***************************************************************************)
\* x[key] for a str key
SubKey(r, key) ==
    Only({IF x.exc # "none" THEN x
          ELSE IF x.v.t = "dict"
               THEN (IF key \in DOMAIN x.v.v THEN Ret(x.v.v[key]) ELSE Raise("KeyError"))
          ELSE Raise("TypeError") : x \in {r}})

\* x[0]
SubZero(r) ==
    Only({IF x.exc # "none" THEN x
          ELSE CASE x.v.t = "list" ->
                      IF x.v.v # <<>> THEN Ret(x.v.v[1]) ELSE Raise("IndexError")
                 [] x.v.t = "str" ->
                      IF x.v.v # <<>> THEN Ret(JStr(<<x.v.v[1]>>)) ELSE Raise("IndexError")
                 [] x.v.t = "dict" -> Raise("KeyError")
                 [] OTHER -> Raise("TypeError") : x \in {r}})

\* line 370: data["candidates"][0]["content"]["parts"][0]["text"]
ExtractText(data) ==
    SubKey(SubZero(SubKey(SubKey(SubZero(SubKey(Ret(data), "candidates")),
                                 "content"), "parts")), "text")

\* The backquote character (written by name: the lexer reserves the sign).
Backquote == "backquote"
Fence == <<Backquote, Backquote, Backquote>>
StartsWithFence(s) == Len(s) >= 3 /\ SubSeq(s, 1, 3) = Fence
HasNewline(s) == \E j \in 1..Len(s) : s[j] = "\n"
FirstNewline(s) == CHOOSE j \in 1..Len(s) : s[j] = "\n" /\ \A h \in 1..(j - 1) : s[h] # "\n"
FencesAt(s) == {j \in 1..(Len(s) - 2) : SubSeq(s, j, j + 2) = Fence}
\* content.rsplit(fence, 1)[0]
BeforeLastFence(s) ==
    IF FencesAt(s) = {} THEN s
    ELSE SubSeq(s, 1, (CHOOSE j \in FencesAt(s) : \A h \in FencesAt(s) : h <= j) - 1)

\* The documents a response text can spell: one character stands for the
\* text of a whole JSON document.
GoodDoc ==
    JDict([relevance_score |-> JStr(<<"1", "5", "0">>),
           reasoning |-> JStr(<<"M", "L">>),
           requirements |-> JList(<<JStr(<<"N", "L", "P">>), JStr(<<>>)>>),
           should_email |-> JBool(TRUE),
           tags |-> JList(<<JInt(7)>>)])
DocOf(c) ==
    CASE c = "#good" -> GoodDoc
      [] c = "#empty" -> JDict(EmptyDict)
      [] c = "#list" -> JList(<<>>)
      [] c = "#null" -> JNull
      [] c = "#inf" -> JDict([relevance_score |-> JInf])
      [] c = "#seven" -> JInt(7)
DocChars == {"#good", "#empty", "#list", "#null", "#inf", "#seven"}

\* json.loads(content)
JsonLoads(s) ==
    IF Len(s) = 1 /\ s[1] \in DocChars THEN Ret(DocOf(s[1]))
    ELSE Raise("JSONDecodeError")

\* lines 373-379
ParseContent(text) ==
    IF text.t # "str" THEN Raise("AttributeError")     \* content.strip()
    ELSE
    LET c1 == Strip(text.v)
    IN  IF StartsWithFence(c1)
        THEN IF ~HasNewline(c1) THEN Raise("IndexError")
             ELSE JsonLoads(Strip(BeforeLastFence(
                      SubSeq(c1, FirstNewline(c1) + 1, Len(c1)))))
        ELSE JsonLoads(c1)

\* lines 352-379: what one try block of an attempt does with the HTTP outcome
TryBlock(o) ==
    CASE o.kind = "429" -> [act |-> "continue", r |-> Ret(JNull)]
      [] o.kind = "http_error" -> [act |-> "except", r |-> Raise("HTTPError")]
      [] o.kind = "network" -> [act |-> "except", r |-> Raise("RequestException")]
      [] o.kind = "body_not_json" -> [act |-> "except", r |-> Raise("JSONDecodeError")]
      [] o.kind = "ok" ->
            Only({[act |-> IF r.exc = "none" THEN "return" ELSE "except", r |-> r] :
                     r \in {IF text.exc # "none" THEN text ELSE ParseContent(text.v) :
                               text \in {ExtractText(o.data)}}})

\* line 361: wait_time after HTTP 429 on the attempt numbered from 0
RateLimitWait_ByNumber(attempt) == REQUEST_DELAY * (attempt + 1)
RateLimitWait(attempt) == REQUEST_DELAY * (attempt + 2)

\* lines 384, 392: the wait after an HTTP error or a network failure on the
\* attempt numbered from 0
ErrorWait_Fixed(attempt) == REQUEST_DELAY
ErrorWait(attempt) == REQUEST_DELAY * (attempt + 1)

\* lines 350-392: one pass of the loop body.  act: return, raise (the exception
\* leaves _call_gemini), or next (go on to the following attempt).
Attempt(attempt, o, retries) ==
    Only({
        CASE t.act = "continue" ->
                [act |-> "next", r |-> Ret(JNull), sleep |-> RateLimitWait(attempt)]
          [] t.act = "return" -> [act |-> "return", r |-> t.r, sleep |-> 0]
          [] t.act = "except" /\ t.r.exc \in {"HTTPError", "RequestException"} ->
                [act |-> "next", r |-> Ret(JNull),
                 sleep |-> IF attempt < retries - 1 THEN ErrorWait(attempt) ELSE 0]
          [] t.act = "except" /\ t.r.exc \in {"JSONDecodeError", "KeyError", "IndexError"} ->
                [act |-> "next", r |-> Ret(JNull),
                 sleep |-> IF attempt < retries - 1 THEN REQUEST_DELAY ELSE 0]
          [] OTHER -> [act |-> "raise", r |-> t.r, sleep |-> 0]
        : t \in {TryBlock(o)}})

NoKeySentinel ==
    JDict([relevance_score |-> JInt(0),
           reasoning |-> JList(<<JStr(<<"n", "o", " ", "k", "e", "y">>)>>),
           requirements |-> JList(<<>>),
           should_email |-> JStr(No),
           tags |-> JList(<<>>)])
FailureSentinel_NoReason ==
    JDict([relevance_score |-> JInt(0),
           reasoning |-> JList(<<>>),
           requirements |-> JList(<<>>),
           should_email |-> JStr(No),
           tags |-> JList(<<>>)])
FailureSentinel ==
    JDict([relevance_score |-> JInt(0),
           reasoning |-> JList(<<JStr(<<"f", "a", "i", "l", "e", "d">>)>>),
           requirements |-> JList(<<>>),
           should_email |-> JStr(No),
           tags |-> JList(<<>>)])

\* lines 363, 384, 388, 392: the seconds slept after each of the first n requests
Waits(outs, n, retries) == [j \in 1..n |-> Attempt(j - 1, outs[j], retries).sleep]

\* The loop from attempt number `attempt` on, over the outcomes outs[attempt+1..]:
\* the value returned or the exception raised, the requests sent, the sleeps,
\* and whether the loop ran out of attempts (line 394 reached).
RECURSIVE RetryLoop(_, _, _, _, _)
RetryLoop(attempt, outs, retries, requests, sleeps) ==
    IF attempt >= retries
    THEN [r |-> Ret(FailureSentinel), requests |-> requests, sleeps |-> sleeps,
          exhausted |-> TRUE, waits |-> Waits(outs, requests, retries)]
    ELSE Only({IF a.act = "next"
               THEN RetryLoop(attempt + 1, outs, retries, requests + 1, sl)
               ELSE [r |-> a.r, requests |-> requests + 1, sleeps |-> sl,
                     exhausted |-> FALSE,
                     waits |-> Waits(outs, requests + 1, retries)] :
                  <<a, sl>> \in {<<b, IF b.sleep > 0 THEN Append(sleeps, b.sleep) ELSE sleeps>> :
                                  b \in {Attempt(attempt, outs[attempt + 1], retries)}}})

_call_gemini(key, outs) ==
    IF ~key THEN [r |-> Ret(NoKeySentinel), requests |-> 0, sleeps |-> <<>>,
                  exhausted |-> FALSE, waits |-> <<>>]
    ELSE RetryLoop(0, outs, MAX_RETRIES, 0, <<>>)

(***************************************************************************)
(* Inputs of the model.                                                    *)
(***************************************************************************)
S(w) == JStr(w)
Envelope(text) ==
    JDict([candidates |-> JList(<<JDict([content |->
              JDict([parts |-> JList(<<JDict([text |-> text])>>)])])>>)])
Ok(data) == [kind |-> "ok", data |-> data]
Failed(kind) == [kind |-> kind, data |-> JNull]

\* Outcomes of one HTTP attempt, for the client stepped on its own.
Outcomes ==
    {Failed("429"), Failed("http_error"), Failed("network"), Failed("body_not_json")}
    \cup {Ok(Envelope(S(<<c>>))) : c \in DocChars}
    \cup {Ok(Envelope(S(Fence \o <<"j", "\n", "#good", "\n">> \o Fence))),
          Ok(Envelope(S(<<" ">> \o Fence \o <<"\n", "#good">>))),
          Ok(Envelope(S(Fence))),
          Ok(Envelope(S(Fence \o <<"\n">> \o Fence))),
          Ok(Envelope(S(<<"a", "b", "c">>))),
          Ok(Envelope(JNull)),
          Ok(Envelope(JInt(7))),
          Ok(JDict(EmptyDict)),
          Ok(JDict([candidates |-> JList(<<>>)])),
          Ok(JDict([candidates |-> JNull])),
          Ok(JDict([candidates |-> S(<<"x">>)])),
          Ok(JDict([candidates |-> JList(<<JDict([content |-> JDict(EmptyDict)])>>)])),
          Ok(JDict([candidates |-> JList(<<JDict([content |->
                JDict([parts |-> JDict(EmptyDict)])])>>)])),
          Ok(JList(<<>>)),
          Ok(JNull)}

\* Outcomes of the attempts of one client call inside a run of step 6.
GoodAttempt == Ok(Envelope(S(<<"#good">>)))
RunOutcomes ==
    {<<GoodAttempt, GoodAttempt, GoodAttempt>>,
     <<Failed("429"), Failed("http_error"), GoodAttempt>>,
     <<Failed("http_error"), Failed("429"), Failed("body_not_json")>>,
     <<Failed("network"), Ok(Envelope(S(<<"#list">>))), GoodAttempt>>,
     <<Ok(JDict([candidates |-> JNull])), GoodAttempt, GoodAttempt>>}

\* Scholar records of PARSED_JSON.
RecA == [discoveryUrlId |-> S(<<"a">>), name |-> S(<<"A">>), tags |-> S(<<"t">>)]
RecA2 == [discoveryUrlId |-> S(<<"a">>), id |-> S(<<"b">>)]
RecB == [id |-> S(<<"b">>), name |-> S(<<"B">>)]
RecU == [name |-> S(<<"U">>)]
Pool == {RecA, RecA2, RecB}

MaxShort == 2       \* longest input list drawn freely from Pool

\* Batches step 5 may write: short lists of any records, duplicates of an
\* identifier included, and longer lists of records without identifier fields.
ShortInputs == UNION {[1..n -> Pool] : n \in 0..MaxShort}
LongInputs == {[j \in 1..n |-> RecU] : n \in (BATCH_SIZE - 1)..MaxRecords}
Inputs == ShortInputs \cup LongInputs
\* Batches step 5 may leave in PARSED_JSON after a completed run.
NextBatches == {<<RecB>>, <<RecA2, RecB>>, <<RecB, RecA, RecA2>>}

(***************************************************************************)
(* step6_gemma_enrichment                                                  *)
(***************************************************************************)
NoFile == [k |-> "none"]
PartialFile == [k |-> "partial"]          \* opened with "w", dump not finished
JsonFile(doc) == [k |-> "json", doc |-> doc]
EmptyMap == [k \in {} |-> EmptyDict]

UnknownId(i) == S(<<"u", "n", "k", "n", "o", "w", "n", "_">> \o IntStr(i))

\* line 474
ScholarId(scholar, i) ==
    Get(scholar, "discoveryUrlId", Get(scholar, "id", UnknownId(i))).v

\* line 449
KeyMissing_Never(key) == FALSE
KeyMissing(key) == ~key

\* line 477
InCheckpoint_Never(id, ck) == FALSE
InCheckpoint(id, ck) == id \in DOMAIN ck

\* lines 478, 490
Merge_ScoreOnly(scholar, data) ==
    Update(scholar, [k \in {"relevance_score"} \cap DOMAIN data |-> data[k]])
Merge(scholar, data) == Update(scholar, data)

\* line 493
Store_Drop(ck, id, data) == ck
Store_Fresh(ck, id, data) == [k \in {id} |-> data]
Store_SkipFailures(ck, id, data) ==
    IF data = _validate_ai_response(FailureSentinel).v.v THEN ck
    ELSE [k \in DOMAIN ck \cup {id} |-> IF k = id THEN data ELSE ck[k]]
Store(ck, id, data) == [k \in DOMAIN ck \cup {id} |-> IF k = id THEN data ELSE ck[k]]

\* line 501
BatchDue_Always(n) == TRUE
BatchDue_EverySecond(n) == n % 2 = 0
BatchDue_Never(n) == FALSE
BatchDue(n) == n % BATCH_SIZE = 0

\* line 507: time.sleep(REQUEST_DELAY), added to the time slept so far
SleepAfter_Twice(total) == total + 2 * REQUEST_DELAY
SleepAfter_Skipped(total) == total
SleepAfter(total) == total + REQUEST_DELAY

\* lines 502-503, 510-511: json.dump(checkpoint, f) completed
Dump(ck) == JsonFile(ck)

\* lines 464-466
LoadCheckpoint(file) ==
    CASE file.k = "none" -> [exc |-> "none", v |-> EmptyMap]
      [] file.k = "json" -> [exc |-> "none", v |-> file.doc]
      [] file.k = "partial" -> [exc |-> "JSONDecodeError", v |-> EmptyMap]

Running == {"loop", "calling", "flush_open", "flush_write", "sleep",
            "final_write", "write_enriched"}
InWrite == {"flush_write", "final_write"}

CurId == ScholarId(scholars[idx + 1], idx)

Bump(f, id) ==
    [k \in DOMAIN f \cup {id} |-> IF k = id THEN Get(f, id, 0) + 1 ELSE f[k]]

NoRun == [ok |-> FALSE]

HistInit ==
    [runs |-> 0,            \* runs started
     classified |-> [k \in {} |-> 0],   \* classifications completed per identifier, this batch
     runCalls |-> <<>>,     \* identifiers the client was invoked for, this run
     loaded |-> EmptyMap,   \* the mapping loaded at the start of this run
     ckReads |-> 0,         \* reads of the checkpoint file
     flushes |-> 0,         \* periodic flushes completed in this run
     lastFlush |-> EmptyMap,\* the mapping written by the last completed flush
     exhausted |-> FALSE,   \* the last client call used up all its attempts
     raisedIn |-> "none",   \* where the exception that ended this run was raised
     slept |-> 0,           \* seconds slept by the loop of this run (line 507)
     waits |-> <<>>,        \* seconds slept after each request of the last client call
     sinceReq |-> -1,       \* seconds slept since the last request of this run, -1: none yet
     gapBefore |-> -1,      \* sinceReq when the last client call sent its first request
     prevDone |-> NoRun,    \* the last run that completed before this one
     prevKill |-> NoRun]    \* the run before this one, if it was killed

\* The process ends: its memory is gone.
Halt(why) ==
    /\ pc' = "stopped"
    /\ exc' = why
    /\ scholars' = <<>>
    /\ checkpoint' = EmptyMap
    /\ enriched' = <<>>
    /\ idx' = 0 /\ processed' = 0 /\ skipped' = 0

\* lines 449-471
StartRun(key) ==
    /\ pc \in {"idle", "done", "stopped"}
    /\ hist.runs < MaxRuns
    /\ apiKey' = key
    /\ UNCHANGED <<parsedJson, ckFile, enrichedFile, cl, vd, pg>>
    /\ LET h == [hist EXCEPT !.runs = @ + 1, !.runCalls = <<>>, !.flushes = 0,
                             !.loaded = EmptyMap, !.exhausted = FALSE,
                             !.raisedIn = "none", !.slept = 0,
                             !.waits = <<>>, !.sinceReq = -1, !.gapBefore = -1,
                             !.prevDone = IF pc = "done"
                                          THEN [ok |-> TRUE, input |-> scholars,
                                                out |-> enriched, ck |-> checkpoint]
                                          ELSE @,
                             !.prevKill = IF pc = "done" THEN NoRun ELSE @]
           ld == LoadCheckpoint(ckFile)
       IN  IF KeyMissing(key)
           THEN Halt("SystemExit") /\ hist' = [h EXCEPT !.prevKill = NoRun]
           ELSE IF ckFile.k = "none"
           THEN /\ pc' = "loop" /\ exc' = "none"
                /\ scholars' = parsedJson /\ checkpoint' = EmptyMap
                /\ enriched' = <<>> /\ idx' = 0 /\ processed' = 0 /\ skipped' = 0
                /\ hist' = h
           ELSE IF ld.exc # "none"
           THEN Halt(ld.exc) /\ hist' = [h EXCEPT !.ckReads = @ + 1, !.prevKill = NoRun]
           ELSE /\ pc' = "loop" /\ exc' = "none"
                /\ scholars' = parsedJson /\ checkpoint' = ld.v
                /\ enriched' = <<>> /\ idx' = 0 /\ processed' = 0 /\ skipped' = 0
                /\ hist' = [h EXCEPT !.ckReads = @ + 1, !.loaded = ld.v]

\* lines 477-481
Skip ==
    /\ pc = "loop" /\ idx < Len(scholars)
    /\ InCheckpoint(CurId, checkpoint)
    /\ enriched' = Append(enriched, Merge(scholars[idx + 1], checkpoint[CurId]))
    /\ skipped' = skipped + 1
    /\ idx' = idx + 1
    /\ UNCHANGED <<apiKey, parsedJson, ckFile, enrichedFile, pc, scholars,
                   checkpoint, processed, exc, hist, cl, vd, pg>>

\* lines 483-487: _call_gemini is entered
Invoke ==
    /\ pc = "loop" /\ idx < Len(scholars)
    /\ ~InCheckpoint(CurId, checkpoint)
    /\ pc' = "calling"
    /\ hist' = [hist EXCEPT !.runCalls = Append(@, CurId)]
    /\ UNCHANGED <<apiKey, parsedJson, ckFile, enrichedFile, scholars, checkpoint,
                   enriched, idx, processed, skipped, exc, cl, vd, pg>>

\* lines 490-501: an exception ends the run; a result is merged into the record
\* and stored
Classified(call, ai) ==
    IF ai.exc # "none"
    THEN Halt(ai.exc)
         /\ hist' = [hist EXCEPT !.prevKill = NoRun, !.slept = 0,
                                 !.waits = call.waits, !.gapBefore = hist.sinceReq,
                                 !.sinceReq = -1,
                                 !.raisedIn = IF call.r.exc # "none" THEN "client"
                                              ELSE "validator"]
    ELSE /\ enriched' = Append(enriched, Merge(scholars[idx + 1], ai.v.v))
         /\ checkpoint' = Store(checkpoint, CurId, ai.v.v)
         /\ processed' = processed + 1
         /\ pc' = IF BatchDue(processed + 1) THEN "flush_open" ELSE "sleep"
         /\ hist' = [hist EXCEPT !.exhausted = call.exhausted,
                                 !.waits = call.waits, !.gapBefore = hist.sinceReq,
                                 !.sinceReq = call.waits[Len(call.waits)],
                                 !.classified = Bump(@, CurId)]
         /\ UNCHANGED <<scholars, idx, skipped, exc>>

\* line 490: an exception of the client leaves the validator uncalled
Validated(call) ==
    \E ai \in {IF call.r.exc = "none" THEN _validate_ai_response(call.r.v) ELSE call.r} :
        Classified(call, ai)

\* lines 487-501: _call_gemini returns or raises, the result is validated,
\* merged into the record and stored
Return(outs) ==
    /\ pc = "calling"
    /\ UNCHANGED <<apiKey, parsedJson, ckFile, enrichedFile, cl, vd, pg>>
    /\ \E call \in {_call_gemini(apiKey, outs)} : Validated(call)

\* line 502: open(CHECKPOINT_FILE, "w") truncates the file
FlushOpen ==
    /\ pc = "flush_open"
    /\ ckFile' = PartialFile
    /\ pc' = "flush_write"
    /\ UNCHANGED <<apiKey, parsedJson, enrichedFile, scholars, checkpoint, enriched,
                   idx, processed, skipped, exc, hist, cl, vd, pg>>

\* lines 503-504
FlushWrite ==
    /\ pc = "flush_write"
    /\ ckFile' = Dump(checkpoint)
    /\ pc' = "sleep"
    /\ hist' = [hist EXCEPT !.flushes = @ + 1, !.lastFlush = checkpoint]
    /\ UNCHANGED <<apiKey, parsedJson, enrichedFile, scholars, checkpoint, enriched,
                   idx, processed, skipped, exc, cl, vd, pg>>

\* line 507
Sleep ==
    /\ pc = "sleep"
    /\ idx' = idx + 1
    /\ pc' = "loop"
    /\ hist' = [hist EXCEPT !.exhausted = FALSE, !.slept = SleepAfter(@),
                            !.waits = <<>>, !.gapBefore = -1,
                            !.sinceReq = SleepAfter(@)]
    /\ UNCHANGED <<apiKey, parsedJson, ckFile, enrichedFile, scholars, checkpoint,
                   enriched, processed, skipped, exc, cl, vd, pg>>

\* line 510
FinalOpen ==
    /\ pc = "loop" /\ idx = Len(scholars)
    /\ ckFile' = PartialFile
    /\ pc' = "final_write"
    /\ UNCHANGED <<apiKey, parsedJson, enrichedFile, scholars, checkpoint, enriched,
                   idx, processed, skipped, exc, hist, cl, vd, pg>>

\* line 511
FinalWrite ==
    /\ pc = "final_write"
    /\ ckFile' = Dump(checkpoint)
    /\ pc' = "write_enriched"
    /\ hist' = [hist EXCEPT !.lastFlush = checkpoint]
    /\ UNCHANGED <<apiKey, parsedJson, enrichedFile, scholars, checkpoint, enriched,
                   idx, processed, skipped, exc, cl, vd, pg>>

\* lines 513-533
WriteEnriched ==
    /\ pc = "write_enriched"
    /\ enrichedFile' = JsonFile(enriched)
    /\ pc' = "done"
    /\ UNCHANGED <<apiKey, parsedJson, ckFile, scholars, checkpoint, enriched,
                   idx, processed, skipped, exc, hist, cl, vd, pg>>

\* The process is killed.
Kill ==
    /\ pc \in Running
    /\ Halt("killed")
    /\ hist' = [hist EXCEPT !.exhausted = FALSE, !.slept = 0, !.waits = <<>>,
                            !.sinceReq = -1, !.gapBefore = -1, !.prevKill =
                    [ok |-> TRUE,
                     clean |-> pc \notin InWrite \cup {"write_enriched"},
                     emptyStart |-> hist.loaded = EmptyMap,
                     flushes |-> hist.flushes,
                     done |-> DOMAIN checkpoint \ DOMAIN hist.loaded]]
    /\ UNCHANGED <<apiKey, parsedJson, ckFile, enrichedFile, cl, vd, pg>>

\* lines 239-240: after a completed run, step 5 writes another batch to
\* PARSED_JSON
ReplaceInput(input) ==
    /\ pc = "done"
    /\ hist.runs < MaxRuns
    /\ input # parsedJson
    /\ input \in NextBatches
    /\ parsedJson' = input
    /\ hist' = [hist EXCEPT !.classified = HistInit.classified]
    /\ UNCHANGED <<apiKey, ckFile, enrichedFile, pc, scholars, checkpoint, enriched,
                   idx, processed, skipped, exc, cl, vd, pg>>

ClientIdle == [state |-> "idle"]
ValidatorIdle == [state |-> "idle"]
GrantsIdle == [state |-> "idle"]

Init ==
    /\ apiKey = FALSE
    /\ parsedJson \in Inputs
    /\ ckFile = NoFile
    /\ enrichedFile = NoFile
    /\ pc = "idle"
    /\ scholars = <<>>
    /\ checkpoint = EmptyMap
    /\ enriched = <<>>
    /\ idx = 0 /\ processed = 0 /\ skipped = 0
    /\ exc = "none"
    /\ hist = HistInit
    /\ cl = ClientIdle
    /\ vd = ValidatorIdle
    /\ pg = GrantsIdle

Next ==
    \/ \E key \in BOOLEAN : StartRun(key)
    \/ Skip
    \/ Invoke
    \/ \E outs \in RunOutcomes : Return(outs)
    \/ FlushOpen
    \/ FlushWrite
    \/ Sleep
    \/ FinalOpen
    \/ FinalWrite
    \/ WriteEnriched
    \/ Kill
    \/ \E input \in NextBatches : ReplaceInput(input)

Spec == Init /\ [][Next]_vars

\* The steps of the step-6 process itself.  A process that is not killed keeps
\* taking them, and the HTTP request of line 352 has a timeout, so a client
\* call entered comes back.
Step ==
    \/ Skip
    \/ Invoke
    \/ \E outs \in RunOutcomes : Return(outs)
    \/ FlushOpen
    \/ FlushWrite
    \/ Sleep
    \/ FinalOpen
    \/ FinalWrite
    \/ WriteEnriched

SpecLive == Spec /\ WF_vars(Step)

(***************************************************************************)
(* _call_gemini stepped on its own, one action per attempt.                *)
(***************************************************************************)
orchVars == <<apiKey, parsedJson, ckFile, enrichedFile, pc, scholars, checkpoint,
              enriched, idx, processed, skipped, exc, hist>>

OrchIdle ==
    /\ apiKey = FALSE
    /\ parsedJson = <<>>
    /\ ckFile = NoFile
    /\ enrichedFile = NoFile
    /\ pc = "idle"
    /\ scholars = <<>>
    /\ checkpoint = EmptyMap
    /\ enriched = <<>>
    /\ idx = 0 /\ processed = 0 /\ skipped = 0
    /\ exc = "none"
    /\ hist = HistInit

ClientStart(key) ==
    [state |-> "start", key |-> key, attempt |-> 0, outs |-> <<>>,
     requests |-> 0, sleeps |-> <<>>, r |-> Ret(JNull)]

\* lines 321-329
ClEnter ==
    /\ cl.state = "start"
    /\ cl' = IF ~cl.key THEN [cl EXCEPT !.state = "returned", !.r = Ret(NoKeySentinel)]
             ELSE [cl EXCEPT !.state = "running"]
    /\ UNCHANGED <<orchVars, vd, pg>>

\* lines 350-392
ClAttempt(o) ==
    /\ cl.state = "running"
    /\ cl.attempt < MAX_RETRIES
    /\ \E a \in {Attempt(cl.attempt, o, MAX_RETRIES)} :
           cl' = [cl EXCEPT
                    !.outs = Append(@, o),
                    !.requests = @ + 1,
                    !.sleeps = IF a.sleep > 0 THEN Append(@, a.sleep) ELSE @,
                    !.attempt = IF a.act = "next" THEN @ + 1 ELSE @,
                    !.state = CASE a.act = "next" -> "running"
                                [] a.act = "return" -> "returned"
                                [] a.act = "raise" -> "raised",
                    !.r = a.r]
    /\ UNCHANGED <<orchVars, vd, pg>>

\* lines 394-401
ClExhausted ==
    /\ cl.state = "running"
    /\ cl.attempt >= MAX_RETRIES
    /\ cl' = [cl EXCEPT !.state = "returned", !.r = Ret(FailureSentinel)]
    /\ UNCHANGED <<orchVars, vd, pg>>

InitClient ==
    /\ OrchIdle
    /\ cl \in {ClientStart(key) : key \in BOOLEAN}
    /\ vd = ValidatorIdle
    /\ pg = GrantsIdle

NextClient ==
    \/ ClEnter
    \/ \E o \in Outcomes : ClAttempt(o)
    \/ ClExhausted

SpecClient == InitClient /\ [][NextClient]_vars

(***************************************************************************)
(* _validate_ai_response applied to one input.                             *)
(***************************************************************************)
Absent == [t |-> "absent"]

ScoreVals ==
    {Absent, JInt(-5), JInt(150), JInt(73), JInt(0), JInt(100),
     S(<<"7", "3">>), S(<<"a", "b", "c">>), S(<<" ", "4", "2", "\n">>),
     S(<<"-", "5">>), S(<<"7", ".", "5">>), S(<<>>), S(<<"1", "_", "0">>),
     JFloat(739), JFloat(-5), JFloat(1500), JInf, JNan,
     JNull, JBool(TRUE), JList(<<>>), JDict(EmptyDict)}

ListVals ==
    {Absent, JList(<<>>),
     JList(<<S(<<"M", "L">>), S(<<>>), JInt(0), JInt(7), JNull, JBool(TRUE)>>),
     S(<<"o", "n", "e">>), S(<<>>), JNull, JInt(5), JBool(FALSE),
     JDict(EmptyDict), JDict([k |-> JInt(1)]), JFloat(15)}

FewListVals == {Absent, JList(<<S(<<"N", "L", "P">>)>>), JInt(5)}

EmailVals ==
    {Absent, S(Yes), S(<<"T", "R", "U", "E">>), JInt(1), S(<<"n", "o">>), JNull,
     JInt(42), JBool(TRUE), JBool(FALSE), S(<<" ", "y", "e", "s">>), S(<<"1">>),
     JFloat(10), JList(<<>>), S(No)}

MkDict(sc, re, rq, em, tg) ==
    LET all == [relevance_score |-> sc, reasoning |-> re, requirements |-> rq,
                should_email |-> em, tags |-> tg]
    IN  JDict([k \in {f \in DOMAIN all : all[f] # Absent} |-> all[k]])

ValidatorInputs ==
    {MkDict(sc, re, rq, em, tg) :
        sc \in ScoreVals, re \in ListVals, rq \in FewListVals,
        em \in EmailVals, tg \in FewListVals}
    \cup {JDict([k |-> JInt(1), relevance_score |-> JInt(50)]),
          FailureSentinel, NoKeySentinel, GoodDoc}
    \cup {JList(<<>>), JList(<<JInt(1)>>), S(<<"x">>), JInt(7), JNull, JBool(TRUE)}

Validate ==
    /\ vd.state = "input"
    /\ vd' = [vd EXCEPT !.state = "validated", !.out = _validate_ai_response(vd.x)]
    /\ UNCHANGED <<orchVars, cl, pg>>

InitValidate ==
    /\ OrchIdle
    /\ cl = ClientIdle
    /\ vd \in {[state |-> "input", x |-> x, out |-> Ret(JNull)] : x \in ValidatorInputs}
    /\ pg = GrantsIdle

NextValidate == Validate

SpecValidate == InitValidate /\ [][NextValidate]_vars

(***************************************************************************)
(* _parse_grants applied to one raw grants document.                       *)
(***************************************************************************)
MaxGrantList == 2   \* longest list of grants in a document

\* A datetime: a calendar date and the microseconds since its midnight.
DateTime(y, m, d, us) == [y |-> y, m |-> m, d |-> d, us |-> us]
LeapYear(y) == (y % 4 = 0 /\ y % 100 # 0) \/ y % 400 = 0
DaysIn(y, m) ==
    IF m = 2 THEN (IF LeapYear(y) THEN 29 ELSE 28)
    ELSE IF m \in {4, 6, 9, 11} THEN 30 ELSE 31
\* datetime < datetime
Before(a, b) ==
    \/ a.y < b.y
    \/ a.y = b.y /\ a.m < b.m
    \/ a.y = b.y /\ a.m = b.m /\ a.d < b.d
    \/ a.y = b.y /\ a.m = b.m /\ a.d = b.d /\ a.us < b.us

\* datetime.strptime(s, "%Y-%m-%d"): four digits, "-", a month written
\* 1[0-2], 0[1-9] or [1-9], "-", a day written 3[01], [12]\d, 0[1-9], [1-9]
\* or a space and [1-9], and nothing after it; then the date must exist.
TwoDigits(s, p) == Len(s) >= p + 1 /\ IsDigit(s[p]) /\ IsDigit(s[p + 1])
NonZeroDigit(s, p) == Len(s) >= p /\ IsDigit(s[p]) /\ s[p] # "0"
MonthLen(s) ==
    IF TwoDigits(s, 6) /\ DigitsVal(SubSeq(s, 6, 7), 0) \in 1..12 THEN 2
    ELSE IF NonZeroDigit(s, 6) THEN 1
    ELSE 0
DayLen(s, p) ==
    IF TwoDigits(s, p) /\ DigitsVal(SubSeq(s, p, p + 1), 0) \in 1..31 THEN 2
    ELSE IF NonZeroDigit(s, p) THEN 1
    ELSE IF Len(s) >= p + 1 /\ s[p] = " " /\ NonZeroDigit(s, p + 1) THEN 2
    ELSE 0
DayVal(s, p, dl) ==
    IF s[p] = " " THEN DigitVal(s[p + 1]) ELSE DigitsVal(SubSeq(s, p, p + dl - 1), 0)
MakeDate(y, m, d) ==
    IF y < 1 \/ d > DaysIn(y, m) THEN Raise("ValueError")
    ELSE Ret(DateTime(y, m, d, 0))
StrptimeDay(s, ml, p, dl) ==
    IF dl = 0 \/ Len(s) # p + dl - 1 THEN Raise("ValueError")
    ELSE MakeDate(DigitsVal(SubSeq(s, 1, 4), 0),
                  DigitsVal(SubSeq(s, 6, 5 + ml), 0),
                  DayVal(s, p, dl))
StrptimeMonth(s, ml) ==
    IF ml = 0 \/ Len(s) < 6 + ml \/ s[6 + ml] # "-" THEN Raise("ValueError")
    ELSE StrptimeDay(s, ml, 7 + ml, DayLen(s, 7 + ml))
Strptime(s) ==
    IF Len(s) < 5 \/ (\E j \in 1..4 : ~IsDigit(s[j])) \/ s[5] # "-"
    THEN Raise("ValueError")
    ELSE StrptimeMonth(s, MonthLen(s))

\* x or ""
OrEmpty(x) == IF Truthy(x) THEN x ELSE JStr(<<>>)
\* end_date[:10] handed to strptime: a str is cut to its first ten characters;
\* a number or a boolean cannot be sliced.
Slice10(x) ==
    IF x.t = "str" THEN Ret(SubSeq(x.v, 1, Min(10, Len(x.v))))
    ELSE Raise("TypeError")

Active == <<"A", "c", "t", "i", "v", "e">>
Expired == <<"E", "x", "p", "i", "r", "e", "d">>

\* lines 189-197: the status, or the exception that leaves _parse_grants
StatusOfDate(parsed, now) ==
    IF parsed.exc = "ValueError" THEN Ret(Active)
    ELSE IF parsed.exc # "none" THEN parsed
    ELSE IF Before(parsed.v, now) THEN Ret(Expired)
    ELSE Ret(Active)
StatusOfSlice(cut, now) ==
    IF cut.exc # "none" THEN cut ELSE StatusOfDate(Strptime(cut.v), now)
GrantStatus(end_date, now) ==
    IF ~Truthy(end_date) THEN Ret(Active)
    ELSE StatusOfSlice(Slice10(end_date), now)

\* line 187
Duration(start_date, end_date) ==
    IF Truthy(start_date) /\ Truthy(end_date)
    THEN JStr(PyStr(start_date) \o <<" ", "t", "o", " ">> \o PyStr(end_date))
    ELSE JStr(<<>>)

\* lines 180: grant.get("name", "").strip()
Title(grant) ==
    IF Get(grant, "name", JStr(<<>>)).t = "str"
    THEN Ret(Strip(Get(grant, "name", JStr(<<>>)).v))
    ELSE Raise("AttributeError")

\* lines 199-204
Entry(title, grant, status) ==
    JDict([title |-> JStr(title),
           funder_name |-> OrEmpty(Get(grant, "funderName", JStr(<<>>))),
           duration |-> Duration(OrEmpty(Get(grant, "startDate", JStr(<<>>))),
                                 OrEmpty(Get(grant, "endDate", JStr(<<>>)))),
           status |-> JStr(status)])

\* list[:max_count]
Take(seq, n) == SubSeq(seq, 1, Min(n, Len(seq)))

GrantsStart(data, now) ==
    [state |-> "start", data |-> data, resources |-> <<>>, i |-> 0, clock |-> now,
     seen |-> <<>>, active |-> <<>>, expired |-> <<>>,
     out |-> [active |-> <<>>, expired |-> <<>>], exc |-> "none"]

\* lines 166-171
PgEnter ==
    /\ pg.state = "start"
    /\ pg' = IF ~Truthy(pg.data) \/ pg.data.t # "dict"
             THEN [pg EXCEPT !.state = "returned"]
             ELSE IF Get(pg.data.v, "resource", JList(<<>>)).t # "list"
             THEN [pg EXCEPT !.state = "returned"]
             ELSE [pg EXCEPT !.state = "loop",
                             !.resources = Get(pg.data.v, "resource", JList(<<>>)).v]
    /\ UNCHANGED <<orchVars, cl, vd>>

\* lines 176-209 for one grant whose title is kept, examined at time now
PgClassify(grant, title, st, now) ==
    pg' = IF st.exc # "none"
          THEN [pg EXCEPT !.state = "raised", !.exc = st.exc, !.clock = now,
                          !.seen = Append(@, now)]
          ELSE [pg EXCEPT !.i = @ + 1, !.clock = now, !.seen = Append(@, now),
                          !.active = IF st.v = Active
                                     THEN Append(@, Entry(title, grant, st.v)) ELSE @,
                          !.expired = IF st.v = Active
                                      THEN @ ELSE Append(@, Entry(title, grant, st.v))]

\* lines 176-182: grants that are not mappings or have no title are passed over
PgTitled(grant, title, now) ==
    IF title.exc # "none"
    THEN pg' = [pg EXCEPT !.state = "raised", !.exc = title.exc, !.clock = now,
                          !.seen = Append(@, now)]
    ELSE IF title.v = <<>>
    THEN pg' = [pg EXCEPT !.i = @ + 1, !.clock = now, !.seen = Append(@, now)]
    ELSE \E st \in {GrantStatus(Get(grant, "endDate", JStr(<<>>)), now)} :
             PgClassify(grant, title.v, st, now)

\* lines 175-209: one pass of the loop; datetime.now() does not go backwards
PgGrant(now) ==
    /\ pg.state = "loop"
    /\ pg.i < Len(pg.resources)
    /\ ~Before(now, pg.clock)
    /\ IF pg.resources[pg.i + 1].t # "dict"
       THEN pg' = [pg EXCEPT !.i = @ + 1, !.clock = now, !.seen = Append(@, now)]
       ELSE \E title \in {Title(pg.resources[pg.i + 1].v)} :
                PgTitled(pg.resources[pg.i + 1].v, title, now)
    /\ UNCHANGED <<orchVars, cl, vd>>

\* line 211
PgReturn ==
    /\ pg.state = "loop"
    /\ pg.i >= Len(pg.resources)
    /\ pg' = [pg EXCEPT !.state = "returned",
                        !.out = [active |-> Take(pg.active, MAX_GRANTS),
                                 expired |-> Take(pg.expired, MAX_GRANTS)]]
    /\ UNCHANGED <<orchVars, cl, vd>>

\* Times at which a grant can be examined, and end dates around them.
Nows ==
    {DateTime(2024, 2, 28, 0), DateTime(2024, 2, 28, 1),
     DateTime(2024, 2, 29, 0), DateTime(2024, 2, 29, 1)}
EndDates ==
    {S(<<"2", "0", "2", "4", "-", "0", "2", "-", "2", "8">>),
     S(<<"2", "0", "2", "4", "-", "0", "2", "-", "2", "9">>),
     S(<<"2", "0", "2", "4", "-", "0", "3", "-", "0", "1">>),
     S(<<"2", "0", "2", "5", "-", "0", "2", "-", "2", "9">>),
     S(<<"2", "0", "2", "4", "-", "2", "-", "2", "8">>),
     S(<<"2", "0", "2", "4", "-", "0", "2", "-", "2", "8", "T", "0", "9">>),
     S(<<"2", "0", "2", "4", "-", "2", "-", "2", "8", "T", "0", "9">>),
     S(<<"s", "o", "o", "n">>), S(<<>>), JNull, JInt(20240228)}
Named(end_date) == JDict([name |-> S(<<"G">>), endDate |-> end_date])
GrantPool ==
    {Named(e) : e \in EndDates}
    \cup {JDict([name |-> S(<<"G">>)]),
          JDict([name |-> S(<<" ">>), endDate |-> S(<<"s", "o", "o", "n">>)]),
          JDict([name |-> JNull]),
          JDict([name |-> S(<<" ", "G", " ">>), funderName |-> JNull,
                 startDate |-> JInt(2023),
                 endDate |-> S(<<"2", "0", "2", "4", "-", "0", "2", "-", "2", "8">>)]),
          JInt(7)}
GrantLists == UNION {[1..n -> GrantPool] : n \in 0..MaxGrantList}
GrantInputs ==
    {JDict([resource |-> JList(g)]) : g \in GrantLists}
    \cup {JNull, JDict(EmptyDict), JList(<<JInt(1)>>), JDict([resource |-> JNull]),
          JDict([total |-> JInt(0)])}

InitGrants ==
    /\ OrchIdle
    /\ cl = ClientIdle
    /\ vd = ValidatorIdle
    /\ pg \in {GrantsStart(data, now) : data \in GrantInputs, now \in Nows}

NextGrants ==
    \/ PgEnter
    \/ \E now \in Nows : PgGrant(now)
    \/ PgReturn

SpecGrants == InitGrants /\ [][NextGrants]_vars

(***************************************************************************)
(* Properties.                                                             *)
(***************************************************************************)
Ids(seq) == [j \in 1..Len(seq) |-> ScholarId(seq[j], j - 1)]
UniqueIds(seq) == \A i, j \in 1..Len(seq) : i # j => Ids(seq)[i] # Ids(seq)[j]
Range(seq) == {seq[j] : j \in 1..Len(seq)}
NoRepeat(seq) == \A i, j \in 1..Len(seq) : i # j => seq[i] # seq[j]
NonResult(rec) == [k \in DOMAIN rec \ ResultFields |-> rec[k]]
ResultOf(rec) == [k \in DOMAIN rec \cap ResultFields |-> rec[k]]
StrList(x) == x.t = "list" /\ \A j \in 1..Len(x.v) : x.v[j].t = "str"
WellFormedResult(d) ==
    /\ DOMAIN d = ResultFields
    /\ d.relevance_score.t = "int"
    /\ d.relevance_score.v \in 0..100
    /\ StrList(d.reasoning) /\ StrList(d.requirements) /\ StrList(d.tags)
    /\ d.should_email \in {S(Yes), S(No)}
SentinelResult == _validate_ai_response(FailureSentinel).v.v
Resumed ==
    /\ hist.prevDone.ok
    /\ hist.prevDone.input = scholars
    /\ hist.prevDone.ck = hist.loaded

\* C1: a run that completes on the input and the checkpoint file left by a
\* completed run makes no client call and returns the same output list.
C1_IdempotentResume ==
    (pc = "done" /\ Resumed) =>
        (hist.runCalls = <<>> /\ enriched = hist.prevDone.out)
C1_Witness ==
    /\ pc = "done" /\ Resumed
    /\ Len(scholars) = 2 /\ skipped = 2 /\ hist.ckReads = 1

\* C2 as stated: over the runs on one batch, kills and restarts included, no
\* identifier is classified more than once.
C2_ExactlyOnceAcrossRuns ==
    \A id \in DOMAIN hist.classified : hist.classified[id] <= 1
\* C2 amended: in every run the client is invoked at most once per identifier
\* and never for an identifier whose entry is in the checkpoint file the run
\* loaded.
C2_NoCallForLoaded ==
    /\ NoRepeat(hist.runCalls)
    /\ \A id \in Range(hist.runCalls) : id \notin DOMAIN hist.loaded
C2_Witness ==
    /\ pc = "done" /\ hist.runs = 2
    /\ \E id \in DOMAIN hist.classified : hist.classified[id] = 2
    /\ skipped > 0 /\ processed > 0

\* C3: a run that started with an empty checkpoint and was killed after N
\* periodic flushes, outside a flush, is followed by a run that skips exactly
\* the first N*BATCH_SIZE records and calls the client for every other one
\* (identifiers unique in the batch).
C3_CheckpointDurability ==
    (/\ pc = "done"
     /\ hist.prevKill.ok /\ hist.prevKill.clean /\ hist.prevKill.emptyStart
     /\ UniqueIds(scholars))
    => LET n == hist.prevKill.flushes * BATCH_SIZE
       IN  /\ n <= Len(scholars)
           /\ skipped = n
           /\ DOMAIN hist.loaded = Range(SubSeq(Ids(scholars), 1, n))
           /\ hist.runCalls = SubSeq(Ids(scholars), n + 1, Len(scholars))
C3_Witness ==
    /\ pc = "done"
    /\ hist.prevKill.ok /\ hist.prevKill.clean /\ hist.prevKill.emptyStart
    /\ hist.prevKill.flushes = 1
    /\ skipped = BATCH_SIZE /\ processed = 1

\* C4 as stated: after a kill at any point the checkpoint file still holds
\* every entry written by the last completed flush.
C4_CrashSafeFlush ==
    (pc = "stopped" /\ exc = "killed") =>
        \A id \in DOMAIN hist.lastFlush :
            /\ ckFile.k = "json"
            /\ id \in DOMAIN ckFile.doc
            /\ ckFile.doc[id] = hist.lastFlush[id]

\* C5: when the client has used up all its attempts the validated
\* failure-default is stored and merged like any result, and an identifier
\* holding it is never sent to the client again, in this run or a later one.
C5_FailureDefaultProcessed ==
    /\ hist.exhausted =>
          /\ pc \in {"sleep", "flush_open", "flush_write"}
          /\ CurId \in DOMAIN checkpoint
          /\ checkpoint[CurId] = SentinelResult
          /\ enriched[idx + 1] = Merge(scholars[idx + 1], SentinelResult)
    /\ \A id \in DOMAIN hist.loaded :
          hist.loaded[id] = SentinelResult => id \notin Range(hist.runCalls)
    /\ pc = "calling" => CurId \notin DOMAIN checkpoint
C5_Witness ==
    /\ pc = "done" /\ hist.runs = 2
    /\ Len(scholars) = 2
    /\ \A id \in DOMAIN hist.loaded : hist.loaded[id] = SentinelResult
    /\ skipped = 2
    /\ ResultOf(enriched[1]) = SentinelResult

\* C6 as stated: no exception leaves _call_gemini.
C6_ClientTotal == cl.state # "raised"

\* C7 as stated: _validate_ai_response returns, for every input, a result
\* with the five fields and an integer score in 0..100.
C7_ValidatorTotal ==
    vd.state = "validated" =>
        /\ vd.out.exc = "none"
        /\ DOMAIN vd.out.v.v = ResultFields
        /\ vd.out.v.v.relevance_score.t = "int"
        /\ vd.out.v.v.relevance_score.v \in 0..100

\* C8: a run started without a credential exits at once with status 1: it
\* reads and writes no file and never reaches the loop or the client.
C8_FatalMissingCredential ==
    /\ [](~apiKey => (pc \notin Running /\ pc # "done"))
    /\ [][(hist'.runs = hist.runs + 1 /\ ~apiKey') =>
            /\ pc' = "stopped" /\ exc' = "SystemExit"
            /\ ckFile' = ckFile /\ enrichedFile' = enrichedFile
            /\ hist'.ckReads = hist.ckReads
            /\ hist'.runCalls = <<>>
            /\ hist'.classified = hist.classified]_vars
C8_Witness ==
    /\ pc = "stopped" /\ exc = "SystemExit"
    /\ hist.runs = 2 /\ hist.ckReads = 0
    /\ ckFile.k = "json" /\ enrichedFile.k = "json"

\* C9: when a run finishes the checkpoint file equals the in-memory mapping,
\* and the output lists the input records in order, each with the five
\* result fields.
C9_CompletedRunOutput ==
    pc = "done" =>
        /\ ckFile = JsonFile(checkpoint)
        /\ enrichedFile = JsonFile(enriched)
        /\ Len(enriched) = Len(scholars)
        /\ \A j \in 1..Len(scholars) :
              /\ NonResult(enriched[j]) = NonResult(scholars[j])
              /\ ResultFields \subseteq DOMAIN enriched[j]
C9_Witness ==
    /\ pc = "done"
    /\ processed = BATCH_SIZE + 1 /\ skipped = 0
    /\ Cardinality(DOMAIN ckFile.doc) = BATCH_SIZE + 1

\* C10: a run never changes or drops an entry it loaded; when it finishes,
\* the file holds the loaded entries unchanged plus one entry per new
\* identifier, records with a loaded identifier carry the stored fields and
\* the others the result validated in this run.
C10_StoredResultsUnchanged ==
    /\ pc \in Running \cup {"done"} =>
          \A id \in DOMAIN hist.loaded :
              id \in DOMAIN checkpoint /\ checkpoint[id] = hist.loaded[id]
    /\ pc = "done" =>
          /\ ckFile.k = "json"
          /\ DOMAIN ckFile.doc = DOMAIN hist.loaded \cup Range(Ids(scholars))
          /\ \A id \in DOMAIN hist.loaded : ckFile.doc[id] = hist.loaded[id]
          /\ \A j \in 1..Len(scholars) :
                LET id == Ids(scholars)[j]
                IN  /\ j <= Len(enriched)
                    /\ id \in DOMAIN ckFile.doc
                    /\ ResultOf(enriched[j]) = ckFile.doc[id]
                    /\ id \notin DOMAIN hist.loaded =>
                          (id \in Range(hist.runCalls) /\ WellFormedResult(ckFile.doc[id]))
C10_Witness ==
    /\ pc = "done"
    /\ Len(scholars) = 2
    /\ Cardinality(DOMAIN hist.loaded) = 1
    /\ skipped = 1 /\ processed = 1
    /\ Cardinality(DOMAIN ckFile.doc) = 2

NonEmptyStrings(x) == \A j \in 1..Len(x.v) : x.v[j].v # <<>>
ValidatedResult(d) ==
    /\ WellFormedResult(d)
    /\ NonEmptyStrings(d.reasoning)
    /\ NonEmptyStrings(d.requirements)
    /\ NonEmptyStrings(d.tags)

\* C11: while a run is between the load of the checkpoint file and its end,
\* every value of the in-memory mapping and every value of the checkpoint file
\* is a validated result: the five fields, an integer score in 0..100, lists
\* of non-empty strings, should_email Yes or No.  A raw response is never
\* stored.
C11_CheckpointValid ==
    /\ \A id \in DOMAIN checkpoint : ValidatedResult(checkpoint[id])
    /\ ckFile.k = "json" => \A id \in DOMAIN ckFile.doc : ValidatedResult(ckFile.doc[id])
    /\ \A id \in DOMAIN hist.loaded : ValidatedResult(hist.loaded[id])
C11_Witness ==
    /\ pc = "sleep" /\ hist.runs = 2
    /\ DOMAIN hist.loaded # {}
    /\ ckFile.k = "json" /\ DOMAIN ckFile.doc # {}
    /\ \E id \in DOMAIN checkpoint :
          /\ id \notin DOMAIN hist.loaded
          /\ checkpoint[id].relevance_score = JInt(100)
          /\ checkpoint[id].requirements = JList(<<S(<<"N", "L", "P">>)>>)
    /\ \E id \in DOMAIN hist.loaded : hist.loaded[id] = SentinelResult

IsPrefix(a, b) == Len(a) <= Len(b) /\ SubSeq(b, 1, Len(a)) = a
\* Run r was ended from outside the loop body: killed, or by an exception
\* raised inside the client call.
Excused(r) == hist.runs = r /\ (exc = "killed" \/ hist.raisedIn = "client")

\* C12, the transitions: a record is handled only when every record before it
\* has been, it is skipped only when its identifier is in the mapping and
\* called only when it is not, and a record once skipped or validated stays
\* as it is for the rest of the run.
C12_Transitions ==
    [][/\ (pc \in Running /\ pc' \in Running \cup {"done"}) =>
              /\ IsPrefix(enriched, enriched')
              /\ Len(enriched') <= Len(enriched) + 1
              /\ idx' \in {idx, idx + 1}
       /\ (pc \in Running /\ Len(enriched') = Len(enriched) + 1) =>
              /\ Len(enriched) = idx
              /\ \/ (pc = "loop" /\ CurId \in DOMAIN checkpoint
                      /\ skipped' = skipped + 1 /\ processed' = processed)
                 \/ (pc = "calling" /\ CurId \notin DOMAIN checkpoint
                      /\ processed' = processed + 1 /\ skipped' = skipped)
       /\ pc' = "calling" => (pc = "loop" /\ CurId \notin DOMAIN checkpoint)]_vars
\* C12, progress: in a run that is not killed and whose client calls return,
\* every record called is validated and the run reaches its end with one
\* output element per record.
C12_Progress ==
    \A r \in 1..MaxRuns :
        /\ (hist.runs = r /\ pc = "calling")
               ~> ((hist.runs = r /\ pc \in {"sleep", "flush_open"}) \/ Excused(r))
        /\ (hist.runs = r /\ pc = "loop")
               ~> ((hist.runs = r /\ pc = "done" /\ Len(enriched) = Len(scholars))
                   \/ Excused(r))
\* C12 as stated: each record goes Pending -> Skipped or Pending -> Called ->
\* Validated, in input order and without regress, and every record reaches a
\* terminal state and the run ends.
C12_RecordStateMachine == C12_Transitions /\ C12_Progress

\* C13: the loop sleeps REQUEST_DELAY once after each classified record,
\* before it moves to the next one; a skipped record brings no sleep and no
\* client call; the time slept by the loop of a run is REQUEST_DELAY times
\* the number of records classified in it.
C13_InterCallDelay ==
    /\ [](/\ pc \in {"loop", "calling", "final_write", "write_enriched", "done"} =>
                hist.slept = REQUEST_DELAY * processed
          /\ pc \in {"sleep", "flush_open", "flush_write"} =>
                hist.slept = REQUEST_DELAY * (processed - 1))
    /\ [][/\ skipped' = skipped + 1 =>
                /\ hist'.slept = hist.slept
                /\ hist'.runCalls = hist.runCalls
                /\ pc' = "loop" /\ idx' = idx + 1
          /\ (pc \in Running /\ idx' = idx + 1 /\ skipped' = skipped) =>
                /\ pc = "sleep" /\ pc' = "loop"
                /\ hist'.slept = hist.slept + REQUEST_DELAY
                /\ Len(enriched) = idx + 1]_vars
C13_Witness ==
    /\ pc = "done"
    /\ skipped = 1 /\ processed = 2
    /\ hist.slept = 2 * REQUEST_DELAY

\* The validator was applied to a mapping whose three list fields can be
\* iterated, so that only the score and should_email decide what it does.
ListFieldsFine ==
    /\ vd.state = "validated"
    /\ vd.x.t = "dict"
    /\ \A k \in {"reasoning", "requirements", "tags"} : ListField(vd.x.v, k).exc = "none"
Clamp(n) == IF n < 0 THEN 0 ELSE IF n > 100 THEN 100 ELSE n
ExpectedScore(d) ==
    IF "relevance_score" \notin DOMAIN d THEN 0
    ELSE IF PyInt(d.relevance_score).exc # "none" THEN 0
    ELSE Clamp(PyInt(d.relevance_score).v.v)
ScoreExample(raw, n) ==
    (ListFieldsFine /\ "relevance_score" \in DOMAIN vd.x.v
        /\ vd.x.v.relevance_score.t = raw.t /\ vd.x.v.relevance_score = raw)
    => (vd.out.exc = "none" /\ vd.out.v.v.relevance_score = JInt(n))

\* C14 as stated: the validated score is 0 when the raw field is absent or
\* cannot be turned into an integer by int(), and is that integer clamped to
\* 0..100 otherwise; -5, 150, "73", "abc" give 0, 100, 73, 0.
C14_ScoreClamping ==
    /\ ListFieldsFine =>
          /\ vd.out.exc = "none"
          /\ vd.out.v.v.relevance_score = JInt(ExpectedScore(vd.x.v))
    /\ ScoreExample(JInt(-5), 0)
    /\ ScoreExample(JInt(150), 100)
    /\ ScoreExample(S(<<"7", "3">>), 73)
    /\ ScoreExample(S(<<"a", "b", "c">>), 0)

\* The raw values whose str(), lowercased, is yes, true or 1.
Affirmative(d) ==
    /\ "should_email" \in DOMAIN d
    /\ \/ d.should_email.t = "str" /\ Lower(d.should_email.v) \in TruthyWords
       \/ d.should_email.t = "int" /\ d.should_email.v = 1
       \/ d.should_email.t = "bool" /\ d.should_email.v
EmailExample(raw, word) ==
    (vd.state = "validated" /\ vd.out.exc = "none"
        /\ "should_email" \in DOMAIN vd.x.v
        /\ vd.x.v.should_email.t = raw.t /\ vd.x.v.should_email = raw)
    => vd.out.v.v.should_email = S(word)

\* C15: whenever the validator returns, should_email is Yes if and only if
\* the string form of the raw field, lowercased, is yes, true or 1, and No
\* otherwise, an absent field included; "Yes", "TRUE", 1 give Yes and "no",
\* None, 42 give No.
C15_ShouldEmail ==
    /\ (vd.state = "validated" /\ vd.out.exc = "none") =>
          vd.out.v.v.should_email = (IF Affirmative(vd.x.v) THEN S(Yes) ELSE S(No))
    /\ EmailExample(S(Yes), Yes)
    /\ EmailExample(S(<<"T", "R", "U", "E">>), Yes)
    /\ EmailExample(JInt(1), Yes)
    /\ EmailExample(S(<<"n", "o">>), No)
    /\ EmailExample(JNull, No)
    /\ EmailExample(JInt(42), No)
C15_Witness ==
    /\ vd.state = "validated" /\ vd.out.exc = "none"
    /\ "should_email" \in DOMAIN vd.x.v
    /\ vd.x.v.should_email.t = "str"
    /\ vd.x.v.should_email.v = <<"T", "R", "U", "E">>
    /\ vd.out.v.v.should_email = S(Yes)

\* The client has returned one of its two sentinels: the no-credential one
\* (lines 321-329) or the one after the last attempt (lines 394-401).
SentinelReturned ==
    /\ cl.state = "returned"
    /\ ~cl.key \/ cl.attempt >= MAX_RETRIES
SentinelShape(d) ==
    /\ d.t = "dict"
    /\ DOMAIN d.v = ResultFields
    /\ d.v.relevance_score = JInt(0)
    /\ d.v.reasoning.t = "list"
    /\ Len(d.v.reasoning.v) = 1
    /\ d.v.reasoning.v[1].t = "str"
    /\ d.v.reasoning.v[1].v # <<>>
    /\ d.v.requirements = JList(<<>>)
    /\ d.v.should_email = S(No)
    /\ d.v.tags = JList(<<>>)
ValidatesToShape(once) ==
    /\ once.exc = "none"
    /\ SentinelShape(once.v)
    /\ _validate_ai_response(once.v) = once

\* C16: a sentinel returned by the client, after the last attempt or without
\* a credential, validates to score 0, one non-empty reasoning entry, empty
\* requirements, should_email No and empty tags, and validating that result
\* again gives the same result.
C16_SentinelShape ==
    SentinelReturned => ValidatesToShape(_validate_ai_response(cl.r.v))
C16_Witness ==
    /\ SentinelReturned
    /\ cl.key
    /\ cl.requests = MAX_RETRIES
    /\ cl.r.v = FailureSentinel
    /\ ValidatesToShape(_validate_ai_response(cl.r.v))

\* The step examines a grant that is a mapping with a non-empty title.
ExaminedGrant ==
    /\ pg.state = "loop"
    /\ Len(pg'.seen) = Len(pg.seen) + 1
    /\ pg.resources[pg.i + 1].t = "dict"
    /\ Title(pg.resources[pg.i + 1].v).exc = "none"
    /\ Title(pg.resources[pg.i + 1].v).v # <<>>
EndDateOf(grant) == Get(grant, "endDate", JNull)
\* The end date is a string whose first ten characters are a calendar date.
Parses(end_date) ==
    /\ end_date.t = "str"
    /\ Strptime(Slice10(end_date).v).exc = "none"
EndsAt(end_date) == Strptime(Slice10(end_date).v).v
DayAfter(dt) ==
    IF dt.d < DaysIn(dt.y, dt.m) THEN DateTime(dt.y, dt.m, dt.d + 1, 0)
    ELSE IF dt.m < 12 THEN DateTime(dt.y, dt.m + 1, 1, 0)
    ELSE DateTime(dt.y + 1, 1, 1, 0)
SameDay(a, b) == a.y = b.y /\ a.m = b.m /\ a.d = b.d
ClassifiedAs(status) ==
    /\ pg'.state = "loop"
    /\ IF status = Active
       THEN /\ Len(pg'.active) = Len(pg.active) + 1
            /\ pg'.active[Len(pg'.active)].v.status = S(Active)
            /\ pg'.expired = pg.expired
       ELSE /\ Len(pg'.expired) = Len(pg.expired) + 1
            /\ pg'.expired[Len(pg'.expired)].v.status = S(Expired)
            /\ pg'.active = pg.active
GrantStatusRule(end_date, now) ==
    /\ ClassifiedAs(Active) \/ ClassifiedAs(Expired)
    /\ (Parses(end_date) /\ EndsAt(end_date) = now) => ClassifiedAs(Expired)
    /\ (Parses(end_date) /\ SameDay(EndsAt(end_date), DayAfter(now))) =>
          ClassifiedAs(Active)
    /\ ~Parses(end_date) => ClassifiedAs(Active)
    /\ ClassifiedAs(Expired) <=> (Parses(end_date) /\ Before(EndsAt(end_date), now))

\* C17 as stated: every grant with a title is classified; one whose end date
\* equals the time of processing is Expired, one whose end date is the next
\* day is Active, one whose end date does not parse is Active, and a grant is
\* Expired exactly when its end date parses and is strictly before that time.
C17_GrantStatus ==
    [][ExaminedGrant =>
          GrantStatusRule(EndDateOf(pg.resources[pg.i + 1].v), pg'.clock)]_vars

\* The in-memory mapping holds every entry loaded at the start of the run,
\* unchanged, and an entry for every record classified in the run.
WholeMapping ==
    /\ DOMAIN checkpoint = DOMAIN hist.loaded \cup Range(hist.runCalls)
    /\ \A k \in DOMAIN hist.loaded : checkpoint[k] = hist.loaded[k]

\* C18: the step that validates a record goes on to write the checkpoint file
\* exactly when the count of records classified in the run, that record
\* included, is a positive multiple of BATCH_SIZE; a write inside the loop
\* starts only there; a skipped record leaves the count and the file alone;
\* the write puts the whole in-memory mapping into the file.
C18_PeriodicFlush ==
    [][/\ (pc = "calling" /\ processed' = processed + 1) =>
              (pc' = "flush_open" <=>
                  (processed' > 0 /\ processed' % BATCH_SIZE = 0))
       /\ (pc' = "flush_open" /\ pc # "flush_open") =>
              (pc = "calling" /\ processed' = processed + 1)
       /\ (ckFile' # ckFile /\ idx < Len(scholars)) =>
              pc \in {"flush_open", "flush_write"}
       /\ skipped' = skipped + 1 =>
              (processed' = processed /\ ckFile' = ckFile /\ pc' = "loop")
       /\ (pc = "flush_write" /\ pc' = "sleep") =>
              (ckFile' = Dump(checkpoint) /\ WholeMapping)]_vars
C18_Witness ==
    /\ pc = "sleep"
    /\ skipped = BATCH_SIZE /\ processed = 1
    /\ hist.flushes = 0
    /\ hist.prevKill.ok /\ hist.prevKill.flushes = 1
    /\ ckFile = Dump(hist.loaded)
    /\ Cardinality(DOMAIN hist.loaded) = BATCH_SIZE

\* The invocation of the client with a credential has ended.
ClientEnded == cl.state \in {"returned", "raised"} /\ cl.key
\* Attempt j got a response from which a parsed document came out.
Succeeded(j) == TryBlock(cl.outs[j]).act = "return"
AllAttemptsFailed ==
    /\ Len(cl.outs) = MAX_RETRIES
    /\ \A j \in 1..Len(cl.outs) : ~Succeeded(j)
ReturnedSentinel == cl.state = "returned" /\ cl.attempt >= MAX_RETRIES

\* C19 as stated: with a credential the client sends between one and
\* MAX_RETRIES requests; a successful attempt is the last one and its parsed
\* document is returned; the failure sentinel is returned exactly when all
\* MAX_RETRIES attempts failed.
C19_BoundedAttempts ==
    /\ (cl.state # "idle" /\ cl.key) =>
          /\ cl.requests = Len(cl.outs)
          /\ cl.requests <= MAX_RETRIES
          /\ \A j \in 1..Len(cl.outs) :
                Succeeded(j) =>
                    /\ j = Len(cl.outs)
                    /\ cl.state = "returned"
                    /\ cl.r = TryBlock(cl.outs[j]).r
    /\ ClientEnded =>
          /\ cl.requests >= 1
          /\ ReturnedSentinel <=> AllAttemptsFailed

\* The step is an attempt that receives HTTP 429.
RateLimitedStep ==
    /\ cl.state = "running"
    /\ Len(cl'.outs) = Len(cl.outs) + 1
    /\ cl'.outs[Len(cl'.outs)].kind = "429"
\* The step follows an attempt that received HTTP 429.
StepAfterRateLimit ==
    /\ cl.state = "running"
    /\ cl.outs # <<>>
    /\ cl.outs[Len(cl.outs)].kind = "429"
    /\ cl' # cl
\* The wait added by the step is longer than every wait before it.
LongestWaitSoFar ==
    /\ Len(cl'.sleeps) = Len(cl.sleeps) + 1
    /\ \A j \in 1..Len(cl.sleeps) : cl.sleeps[j] < cl'.sleeps[Len(cl'.sleeps)]

\* C20 as stated: after HTTP 429 the client waits REQUEST_DELAY times the
\* index of the attempt (numbered from 0 or from 1), longer than before, and
\* the next thing it does is another request.
C20_Backoff429 ==
    [][/\ RateLimitedStep =>
              /\ LongestWaitSoFar
              /\ cl'.sleeps[Len(cl'.sleeps)] \in
                    {REQUEST_DELAY * cl.attempt, REQUEST_DELAY * (cl.attempt + 1)}
              /\ cl'.state = "running"
       /\ StepAfterRateLimit => cl'.requests = cl.requests + 1]_vars

\* C20 amended: after HTTP 429 on the attempt numbered a from 0 the client
\* waits REQUEST_DELAY * (a + 2), longer than every wait before it; it then
\* sends the next request if a + 1 < MAX_RETRIES, and otherwise returns the
\* failure sentinel without another request.
C20_Backoff429Actual ==
    [][/\ RateLimitedStep =>
              /\ LongestWaitSoFar
              /\ cl'.sleeps[Len(cl'.sleeps)] = REQUEST_DELAY * (cl.attempt + 2)
              /\ cl'.state = "running"
              /\ cl'.attempt = cl.attempt + 1
       /\ StepAfterRateLimit =>
              IF cl.attempt < MAX_RETRIES
              THEN cl'.requests = cl.requests + 1
              ELSE /\ cl'.requests = cl.requests
                   /\ cl'.state = "returned"
                   /\ cl'.r = Ret(FailureSentinel)]_vars
C20_Witness ==
    /\ cl.state = "returned"
    /\ cl.requests = MAX_RETRIES
    /\ \A j \in 1..Len(cl.outs) : cl.outs[j].kind = "429"
    /\ cl.sleeps = <<2 * REQUEST_DELAY, 3 * REQUEST_DELAY, 4 * REQUEST_DELAY>>
    /\ cl.r = Ret(FailureSentinel)

ErrorKinds == {"http_error", "network"}
\* The step is an attempt that fails with an HTTP error other than 429 or
\* with a network failure.
ErrorStep ==
    /\ cl.state = "running"
    /\ Len(cl'.outs) = Len(cl.outs) + 1
    /\ cl'.outs[Len(cl'.outs)].kind \in ErrorKinds
\* The step follows such an attempt.
StepAfterError ==
    /\ cl.state = "running"
    /\ cl.outs # <<>>
    /\ cl.outs[Len(cl.outs)].kind \in ErrorKinds
    /\ cl' # cl
\* While attempts remain every earlier attempt was followed by a wait, so
\* the j-th wait belongs to the j-th attempt.
SameWaitAsEarlierErrors ==
    /\ Len(cl'.sleeps) = Len(cl.sleeps) + 1
    /\ \A j \in 1..Len(cl.outs) :
          cl.outs[j].kind \in ErrorKinds => cl.sleeps[j] = cl'.sleeps[Len(cl'.sleeps)]

\* C21 as stated: after an HTTP error other than 429 or a network failure on
\* an attempt that is not the last, the client waits the same delay as after
\* every earlier such failure, and the next thing it does is another request.
C21_FixedDelay ==
    [][/\ (ErrorStep /\ cl.attempt < MAX_RETRIES - 1) =>
              /\ SameWaitAsEarlierErrors
              /\ cl'.state = "running"
       /\ (StepAfterError /\ cl.attempt < MAX_RETRIES) =>
              cl'.requests = cl.requests + 1]_vars

\* C21 amended: after such a failure on the attempt numbered a from 0 the
\* client waits REQUEST_DELAY * (a + 1) and sends the next request when
\* a + 1 < MAX_RETRIES; on the last attempt it does not wait and returns the
\* failure sentinel without another request.
C21_ErrorBackoff ==
    [][/\ ErrorStep =>
              /\ cl'.sleeps = IF cl.attempt < MAX_RETRIES - 1
                              THEN Append(cl.sleeps, REQUEST_DELAY * (cl.attempt + 1))
                              ELSE cl.sleeps
              /\ cl'.state = "running"
              /\ cl'.attempt = cl.attempt + 1
       /\ StepAfterError =>
              IF cl.attempt < MAX_RETRIES
              THEN cl'.requests = cl.requests + 1
              ELSE /\ cl'.requests = cl.requests
                   /\ cl'.state = "returned"
                   /\ cl'.r = Ret(FailureSentinel)]_vars
C21_Witness ==
    /\ cl.state = "returned"
    /\ cl.requests = MAX_RETRIES
    /\ cl.outs[1].kind = "network" /\ cl.outs[2].kind = "http_error"
    /\ cl.outs[3].kind = "network"
    /\ cl.sleeps = <<REQUEST_DELAY, 2 * REQUEST_DELAY>>
    /\ cl.r = Ret(FailureSentinel)

\* C22: within a run the process has slept at least REQUEST_DELAY between
\* the last request of one client call and the first request of the next
\* one, and at least REQUEST_DELAY between two consecutive requests of one
\* client call.
C22_RequestSpacing ==
    /\ hist.gapBefore = -1 \/ hist.gapBefore >= REQUEST_DELAY
    /\ (pc \in {"sleep", "flush_open", "flush_write"} /\ processed >= 2) =>
          hist.gapBefore >= REQUEST_DELAY
    /\ pc \in {"sleep", "flush_open", "flush_write"} => hist.waits # <<>>
    /\ \A j \in 1..(Len(hist.waits) - 1) : hist.waits[j] >= REQUEST_DELAY
C22_Witness ==
    /\ pc = "sleep"
    /\ processed = 2
    /\ hist.gapBefore = REQUEST_DELAY
    /\ Len(hist.waits) = MAX_RETRIES
    /\ hist.waits[1] = 2 * REQUEST_DELAY /\ hist.waits[2] = 2 * REQUEST_DELAY

\* The entries of the checkpoint file; a file that does not exist has none.
FileEntries == IF ckFile.k = "json" THEN ckFile.doc ELSE EmptyMap
\* Records classified by the killed run that this run has sent to the client.
Reclassified == {id \in Range(hist.runCalls) : id \in hist.prevKill.done}

\* C23: while a run is not writing the checkpoint file, every entry of the
\* file is in the in-memory mapping with the same value and at most
\* BATCH_SIZE entries of the mapping are missing from the file; the run that
\* follows a killed run classifies again at most BATCH_SIZE of the records
\* the killed run had classified.
C23_BoundedLoss ==
    /\ pc \in Running \ InWrite =>
          /\ ckFile.k # "partial"
          /\ \A id \in DOMAIN FileEntries :
                id \in DOMAIN checkpoint /\ checkpoint[id] = FileEntries[id]
          /\ Cardinality(DOMAIN checkpoint \ DOMAIN FileEntries) <= BATCH_SIZE
    /\ (pc \in Running /\ hist.prevKill.ok) =>
          Cardinality(Reclassified) <= BATCH_SIZE
C23_Witness ==
    /\ pc = "flush_open"
    /\ hist.prevKill.ok
    /\ Cardinality(hist.prevKill.done) = BATCH_SIZE
    /\ Cardinality(Reclassified) = BATCH_SIZE
    /\ Cardinality(DOMAIN checkpoint \ DOMAIN FileEntries) = BATCH_SIZE

\* C24: when the validator returns, validating its result again returns the
\* same result.
C24_ValidatorIdempotent ==
    (vd.state = "validated" /\ vd.out.exc = "none") =>
        _validate_ai_response(vd.out.v) = vd.out
C24_Witness ==
    /\ vd.state = "validated" /\ vd.out.exc = "none"
    /\ "reasoning" \in DOMAIN vd.x.v
    /\ vd.x.v.reasoning.t = "list"
    /\ Len(vd.x.v.reasoning.v) > Len(vd.out.v.v.reasoning.v)
    /\ "should_email" \in DOMAIN vd.x.v
    /\ vd.x.v.should_email.t = "bool"
    /\ vd.out.v.v.should_email = S(Yes)
    /\ "relevance_score" \in DOMAIN vd.x.v
    /\ vd.x.v.relevance_score.t = "str"
    /\ vd.out.v.v.relevance_score = JInt(73)
    /\ _validate_ai_response(vd.out.v) = vd.out

====
